---- MODULE Spec2Model ----
(***************************************************************************)
(* State-machine model of the papergist browser client                     *)
(* (src/unnamed/part_001, the front-end logic module with the global       *)
(* isApiCallInProgress lock).                                              *)
(*                                                                         *)
(* One action per event handler, timer callback or continuation of an      *)
(* async function after an await.  JavaScript runs every handler to        *)
(* completion, so everything between two awaits is one atomic step.        *)
(*                                                                         *)
(* Strings whose content the code inspects (queries, identifiers,          *)
(* summaries, first-page text) are sequences of one-character strings.     *)
(*                                                                         *)
(* The page markup is not part of the sources.  The initial DOM state is   *)
(* taken from the comments of the script ("pagination is hidden at the     *)
(* beginning", resetUploadSteps "for next upload"); a control can be used  *)
(* only while the section the script shows/hides it with is displayed.     *)
(***************************************************************************)
EXTENDS Integers, Sequences, FiniteSets, TLC

\* ---------------------------------------------------------------- bounds
MaxOps == 2        \* async operations that may be suspended at the same time
MaxUploads == 2    \* successful uploads added during a run
MaxPage == 1       \* |currentPage| stays within this bound
MaxEvents == 4     \* user and browser events delivered during a run

\* ------------------------------------------------------- string helpers
\* String-valued fields and variables are sequences; an absent field
\* (JavaScript undefined) and null are marker sequences no text equals.
Undef == <<"#undefined">>
Null == <<"#null">>
Fail == <<"#fail">>      \* an extraction step that throws

IsWs(c) == c = " "

RECURSIVE TrimLeft(_)
TrimLeft(s) == IF s = <<>> THEN <<>>
               ELSE IF IsWs(Head(s)) THEN TrimLeft(Tail(s)) ELSE s

RECURSIVE TrimRight(_)
TrimRight(s) == IF s = <<>> THEN <<>>
                ELSE IF IsWs(s[Len(s)]) THEN TrimRight(SubSeq(s, 1, Len(s) - 1)) ELSE s

\* String.prototype.trim
Trim(s) == TrimRight(TrimLeft(s))

\* sanitizeArxivId returning its argument as it is
sanitizeArxivId_KeepSlash(arxivId) == arxivId

\* s.replace(/\//g, "-")
sanitizeArxivId(arxivId) ==
    [i \in DOMAIN arxivId |-> IF arxivId[i] = "/" THEN "-" ELSE arxivId[i]]

\* s.replace(/\s+/g, '')
RECURSIVE StripWs(_)
StripWs(s) == IF s = <<>> THEN <<>>
              ELSE IF IsWs(Head(s)) THEN StripWs(Tail(s))
              ELSE <<Head(s)>> \o StripWs(Tail(s))

\* String.prototype.toLowerCase of one UTF-16 code unit (the locale
\* insensitive Unicode case mapping): U+0130, capital I with dot above,
\* becomes "i" followed by the combining dot U+0307
LowerChar(c) ==
    CASE c = "A" -> <<"a">> [] c = "B" -> <<"b">>
      [] c = "U+0130" -> <<"i", "U+0307">> [] OTHER -> <<c>>

\* String.prototype.toLowerCase
RECURSIVE ToLower(_)
ToLower(s) == IF s = <<>> THEN <<>> ELSE LowerChar(Head(s)) \o ToLower(Tail(s))

\* text.slice(0, n)
Slice(s, n) == SubSeq(s, 1, IF Len(s) < n THEN Len(s) ELSE n)

HashPrefixLen == 48

\* generatePdfHash without slice(0, 48): the whole first-page text is hashed
generatePdfHash_WholeText(text) ==
    IF text = Fail THEN Null ELSE ToLower(StripWs(text))

\* generatePdfHash: the value returned for the extracted first-page text, or
\* null when PDF.js is missing or any extraction step throws ("fail").
generatePdfHash(text) ==
    IF text = Fail THEN Null
    ELSE ToLower(StripWs(Slice(text, HashPrefixLen)))

\* JavaScript truthiness of a string-or-null/undefined value
Truthy(v) == v # Null /\ v # Undef /\ v # <<>>

\* ---------------------------------------------------------- input sets
\* raw contents of the search box
RawQueries == { <<>>, <<" ">>, <<"m", "l">>, <<" ", "m", "l">> }
SortKeys == { "relevance", "lastUpdatedDate" }

\* identifiers
P1 == <<"a", "/", "1">>              \* a backend-assigned id with a separator
H1 == <<"h", "1">>                   \* id of a record found by hash
UuidChars == <<"1", "2", "3", "4">>
ManualId(n) == <<"m", "u", "-", UuidChars[n]>>   \* manual-upload-<uuid>

\* papers of a search response: the arxiv_id field of each
SearchPaperSets == { {}, {P1}, {P1, Undef} }

\* what createPaperCard stores in data-paper
CardPaper(id) ==
    [arxiv_id |-> id,
     sanitized_arxiv_id |-> IF Truthy(id) THEN sanitizeArxivId(id) ELSE Undef,
     original_arxiv_id |-> IF Truthy(id) THEN id ELSE Undef]

\* the uploadRecord / dummyPaperData built after a successful PUT
UploadRecord(n) ==
    [arxiv_id |-> ManualId(n),
     sanitized_arxiv_id |-> ManualId(n),
     original_arxiv_id |-> Undef]

\* file names by their part after the last dot
FileExts == { "pdf", "PDF", "docx", "txt", "csv" }
NoFile == "nofile"
ExtLower(e) == IF e = "PDF" THEN "pdf" ELSE e

\* first-page text pdf.js extracts, or Fail
FirstPageTexts == { Fail, <<>>, <<" ">>, <<"A", " ", "b">> }

\* A parsed response body.  kind: "object" (a JSON object with the fields
\* below), "null" (JSON null), "unparsable" (response.json() rejects) or
\* "none" (no body read).  processing is "true", "false" or "undefined";
\* message and error are "undefined" or the text.
Body(aid, said, sum, proc, msg, err) ==
    [kind |-> "object", arxiv_id |-> aid, sanitized_arxiv_id |-> said,
     summary |-> sum, processing |-> proc, message |-> msg, error |-> err,
     papers |-> {}, has_papers |-> FALSE, has_next_page |-> FALSE]
NoFields == Body(Undef, Undef, Undef, "undefined", "undefined", "undefined")
NullBody == [NoFields EXCEPT !.kind = "null"]
Unparsable == [NoFields EXCEPT !.kind = "unparsable"]
NoBody == [NoFields EXCEPT !.kind = "none"]

BReady == Body(P1, Undef, <<"s">>, "false", "undefined", "undefined")
BBlank == Body(P1, Undef, <<" ">>, "false", "undefined", "undefined")
BProcessing == Body(P1, Undef, Undef, "true", "undefined", "undefined")
BNoData == Body(Undef, Undef, Undef, "undefined", "No data found", "undefined")
BError == Body(Undef, Undef, Undef, "undefined", "undefined", "boom")
BHit == Body(H1, Undef, <<"s">>, "false", "undefined", "undefined")
BHitSan == Body(P1, <<"a", "-", "1">>, <<"s">>, "false", "undefined", "undefined")

\* search bodies: papers (the arxiv_id of each), has_next_page
SearchBody(papers, next) ==
    [NoFields EXCEPT !.papers = papers, !.has_papers = TRUE, !.has_next_page = next]

\* a response: the fetch rejects, or resolves with a status and a body
Resp(ok, body) == [net |-> "resolved", ok |-> ok, body |-> body]
RespReject == [net |-> "rejected", ok |-> FALSE, body |-> NoBody]

PaperResponses ==
    { RespReject, Resp(TRUE, Unparsable), Resp(TRUE, NullBody) }
    \cup { Resp(TRUE, b) : b \in { BReady, BBlank, BProcessing, BNoData, BError } }

HashResponses ==
    { RespReject, Resp(TRUE, Unparsable), Resp(TRUE, NullBody),
      Resp(TRUE, BNoData), Resp(TRUE, BHit), Resp(TRUE, BHitSan), Resp(FALSE, BHit) }

EnqueueResponses ==
    { RespReject, Resp(TRUE, Unparsable), Resp(TRUE, NullBody),
      Resp(TRUE, BError), Resp(TRUE, BNoData) }

PutResponses == { RespReject, Resp(TRUE, NoBody), Resp(FALSE, NoBody) }

SearchResponses ==
    { RespReject, Resp(TRUE, Unparsable), Resp(TRUE, NullBody),
      Resp(TRUE, BError), Resp(TRUE, NoFields) }
    \cup { Resp(TRUE, SearchBody(ps, n)) : ps \in SearchPaperSets, n \in BOOLEAN }

\* ------------------------------------------------------ pure functions
\* hasSummary(data)
hasSummary(data) ==
    /\ data.kind = "object"
    /\ data.summary # Undef
    /\ data.summary # Null
    /\ Trim(data.summary) # <<>>

\* the value a call returns, or the fact that it raised
Returned(v) == [threw |-> FALSE, value |-> v]
Raised == [threw |-> TRUE, value |-> NoBody]

\* the try block of checkPaperHashExists: fetch, response.ok, json(), arxiv_id
checkPaperHashTry(resp) ==
    IF resp.net = "rejected" THEN Raised
    ELSE IF ~resp.ok THEN Returned(NullBody)
    ELSE IF resp.body.kind = "unparsable" THEN Raised
    ELSE IF resp.body.kind = "object" /\ Truthy(resp.body.arxiv_id)
         THEN Returned(resp.body)
    ELSE Returned(NullBody)

\* checkPaperHashExists without its catch block
checkPaperHashExists_NoCatch(resp) == checkPaperHashTry(resp)

\* checkPaperHashExists: the catch block turns every exception into null
checkPaperHashExists(resp) ==
    IF checkPaperHashTry(resp).threw THEN Returned(NullBody)
    ELSE checkPaperHashTry(resp)

\* enqueuePaper: true iff the body parsed and carries no error; reading
\* .error of a null body throws inside the try, which the catch turns to false
enqueuePaper(resp) ==
    IF resp.net = "rejected" THEN FALSE
    ELSE IF resp.body.kind # "object" THEN FALSE
    ELSE resp.body.error = "undefined"

\* the branch processPaperSummary / fetchPaper take on a response
PaperCase(resp) ==
    IF resp.net = "rejected" \/ resp.body.kind = "unparsable" THEN "throw"
    ELSE IF hasSummary(resp.body) /\ resp.body.processing = "false" THEN "ready"
    ELSE IF resp.body.kind = "object" /\ resp.body.processing = "true" THEN "processing"
    ELSE IF resp.body.kind = "null" \/ resp.body.message = "No data found" THEN "notfound"
    ELSE "unknown"

\* ---------------------------------------------------------------- state
VARIABLES
    currentPage, currentQuery, currentSortBy, hasNextPage, currentView,
    currentPaperData, myUploads, isApiCallInProgress,
    storage,               \* localStorage slot 'papergist-uploads'
    location,              \* the id after the last /paper/ of the URL, <<>> if none
    fileProtocol,          \* window.location.protocol === 'file:'
    uploadModalOpen,       \* #uploadModal displayed
    uploadSteps,           \* classes of #uploadStep1..3
    paperViewVisible, searchSectionVisible, paginationVisible,
    cards,                 \* paper cards in #resultsContainer (their arxiv_id)
    uploadCards,           \* number of upload cards in #resultsContainer
    paperContent,          \* record rendered in #paperContent
    pickerOpen,            \* the file chooser opened by uploadInput.click()
    ops,                   \* async functions suspended at an await
    timers,                \* pending setTimeout(..., 1000) of uploadFile
    nEvents,               \* user and browser events delivered so far
    prevDisabled,          \* prevPageButton.disabled
    nextDisabled,          \* nextPageButton.disabled
    enteredFrom,           \* history: currentView when the paper view was entered
    hashing,               \* two calls of generatePdfHash: texts and results
    disabled,              \* .disabled of searchInput, searchButton, sortBySelect
                           \* and uploadButton, and the cards whose summarize
                           \* button is disabled
    app,                   \* the state of the client of frontend/app.js
    obs                    \* what the last step did (notices, requests, ...)

vars == << currentPage, currentQuery, currentSortBy, hasNextPage, currentView,
           currentPaperData, myUploads, isApiCallInProgress, storage, location,
           fileProtocol, uploadModalOpen, uploadSteps, paperViewVisible,
           searchSectionVisible, paginationVisible, cards, uploadCards,
           paperContent, pickerOpen, ops, timers, nEvents, prevDisabled,
           nextDisabled, enteredFrom, disabled, hashing, app, obs >>

Base == <<>>
NoPaper == CardPaper(Undef)
Idle == [kind |-> "idle", pc |-> "-", paper |-> NoPaper, id |-> Undef,
         ext |-> "-", hit |-> FALSE, nPut |-> 0, nEnq |-> 0, nNet |-> 0]
Op(kind, pc, paper, id, ext) ==
    [Idle EXCEPT !.kind = kind, !.pc = pc, !.paper = paper, !.id = id, !.ext = ext]

\* the static controls and the summarize buttons, all enabled
NoneDisabled ==
    [searchInput |-> FALSE, searchButton |-> FALSE, sortBySelect |-> FALSE,
     uploadButton |-> FALSE, summarize |-> {}]

\* generatePdfHash called for two first-page texts, before it returns
Hashing(text, other) ==
    [text |-> text, other |-> other, hashStr |-> Undef, otherHashStr |-> Undef,
     returned |-> FALSE]

StepsInitial == [k \in 1..3 |-> IF k = 1 THEN {"active"} ELSE {}]

\* the observation of a step that has not done anything yet
NoObs(name, held) ==
    [name |-> name, held |-> held, acquired |-> FALSE, reacquired |-> FALSE,
     threw |-> FALSE, overflow |-> FALSE, toasts |-> <<>>, reqs |-> <<>>,
     ended |-> FALSE, how |-> "-", op |-> Idle,
     case |-> "-", displayed |-> FALSE,
     resp |-> RespReject, ret |-> Returned(NoBody), enqueued |-> "-",
     failed |-> "-"]

\* the current state as a record, with a fresh observation, for a step `name`
Begin(name) ==
    [currentPage |-> currentPage, currentQuery |-> currentQuery,
     currentSortBy |-> currentSortBy, hasNextPage |-> hasNextPage,
     currentView |-> currentView, currentPaperData |-> currentPaperData,
     myUploads |-> myUploads, isApiCallInProgress |-> isApiCallInProgress,
     storage |-> storage, location |-> location, fileProtocol |-> fileProtocol,
     uploadModalOpen |-> uploadModalOpen, uploadSteps |-> uploadSteps,
     paperViewVisible |-> paperViewVisible,
     searchSectionVisible |-> searchSectionVisible,
     paginationVisible |-> paginationVisible, cards |-> cards,
     uploadCards |-> uploadCards, paperContent |-> paperContent,
     pickerOpen |-> pickerOpen, ops |-> ops, timers |-> timers,
     nEvents |-> nEvents, prevDisabled |-> prevDisabled,
     nextDisabled |-> nextDisabled, enteredFrom |-> enteredFrom,
     disabled |-> disabled,
     obs |-> NoObs(name, isApiCallInProgress)]

\* the same for a step that delivers a user or browser event
Event(name) == [Begin(name) EXCEPT !.nEvents = @ + 1]

\* the request to endpoint ep failed: the fetch rejected, the status is not
\* a success where the code reads it (dedup probe, artifact PUT), the body does
\* not parse, carries an error field, or is not a search result
FailedResp(ep, resp) ==
    \/ resp.net = "rejected"
    \/ ep \in { "hash", "put" } /\ ~resp.ok
    \/ ep # "put" /\ resp.body.kind = "unparsable"
    \/ ep # "put" /\ resp.body.kind = "object" /\ resp.body.error # "undefined"
    \/ ep = "search" /\ (resp.body.kind = "null" \/ ~resp.body.has_papers)

\* the state as a continuation finds it when the request to ep settles
Settled(name, ep, resp) ==
    [Begin(name) EXCEPT !.obs.failed = IF FailedResp(ep, resp) THEN ep ELSE "-"]

Abs(n) == IF n < 0 THEN 0 - n ELSE n

\* the state `t` is within the bounds of the model
WithinBounds(t) ==
    /\ ~t.obs.overflow
    /\ Abs(t.currentPage) <= MaxPage
    /\ Len(t.myUploads) <= MaxUploads
    /\ t.nEvents <= MaxEvents

Commit(t) ==
    /\ WithinBounds(t)
    /\ currentPage' = t.currentPage
    /\ currentQuery' = t.currentQuery
    /\ currentSortBy' = t.currentSortBy
    /\ hasNextPage' = t.hasNextPage
    /\ currentView' = t.currentView
    /\ currentPaperData' = t.currentPaperData
    /\ myUploads' = t.myUploads
    /\ isApiCallInProgress' = t.isApiCallInProgress
    /\ storage' = t.storage
    /\ location' = t.location
    /\ fileProtocol' = t.fileProtocol
    /\ uploadModalOpen' = t.uploadModalOpen
    /\ uploadSteps' = t.uploadSteps
    /\ paperViewVisible' = t.paperViewVisible
    /\ searchSectionVisible' = t.searchSectionVisible
    /\ paginationVisible' = t.paginationVisible
    /\ cards' = t.cards
    /\ uploadCards' = t.uploadCards
    /\ paperContent' = t.paperContent
    /\ pickerOpen' = t.pickerOpen
    /\ ops' = t.ops
    /\ timers' = t.timers
    /\ nEvents' = t.nEvents
    /\ prevDisabled' = t.prevDisabled
    /\ nextDisabled' = t.nextDisabled
    /\ enteredFrom' = t.enteredFrom
    /\ disabled' = t.disabled
    /\ app' = app
    /\ hashing' = hashing
    /\ obs' = t.obs

\* ----------------------------------------------- functions of the script
\* Each takes the state record and returns the state after the call.

showToast(s, msg, type) ==
    [s EXCEPT !.obs.toasts = Append(@, [msg |-> msg, type |-> type])]

WaitMsg == "Please wait for the current operation to complete"
refuse(s) == showToast(s, WaitMsg, "info")

\* an uncaught exception leaves the running function
throw(s) == [s EXCEPT !.obs.threw = TRUE]

\* fetch(...) is called: a request leaves the browser
Request(ep, arg, page, sort) == [ep |-> ep, arg |-> arg, page |-> page, sort |-> sort]
fetch(s, ep, arg) ==
    [s EXCEPT !.obs.reqs = Append(@, Request(ep, arg, s.currentPage, s.currentSortBy))]

\* every button (but .close), input and select of the document is disabled
disableAllUIInteractions(s) ==
    [s EXCEPT !.prevDisabled = TRUE, !.nextDisabled = TRUE,
              !.disabled = [searchInput |-> TRUE, searchButton |-> TRUE,
                            sortBySelect |-> TRUE, uploadButton |-> TRUE,
                            summarize |-> s.cards]]

\* every button is enabled; window.prevPageButton and window.nextPageButton
\* are undefined (prevPageButton and nextPageButton are top-level const
\* bindings, not properties of window), so the two rules that follow are skipped
enableAllUIInteractions(s) ==
    [s EXCEPT !.prevDisabled = FALSE, !.nextDisabled = FALSE, !.disabled = NoneDisabled]

\* setButtonLoading(button, isLoading) for the summarize button of card id
setButtonLoading(s, id, isLoading) ==
    [s EXCEPT !.disabled.summarize =
                  IF isLoading THEN @ \cup ({id} \cap s.cards) ELSE @ \ {id}]

setUploadButtonLoading(s, isLoading) == [s EXCEPT !.disabled.uploadButton = isLoading]

\* setApiCallState that sets the flag and leaves the controls as they are
setApiCallState_FlagOnly(s, inProgress) ==
    [s EXCEPT !.isApiCallInProgress = inProgress,
              !.obs.acquired = @ \/ inProgress,
              !.obs.reacquired = @ \/ (inProgress /\ s.isApiCallInProgress)]

setApiCallState(s, inProgress) ==
    LET s1 == [s EXCEPT !.isApiCallInProgress = inProgress,
                        !.obs.acquired = @ \/ inProgress,
                        !.obs.reacquired = @ \/ (inProgress /\ s.isApiCallInProgress)]
    IN IF inProgress THEN disableAllUIInteractions(s1) ELSE enableAllUIInteractions(s1)

FreeSlots(s) == { i \in 1..MaxOps : s.ops[i].kind = "idle" }
Lowest(S) == CHOOSE i \in S : \A j \in S : i <= j

\* the async function suspends at an await; it continues in a later step
suspend(s, op) ==
    IF FreeSlots(s) = {} THEN [s EXCEPT !.obs.overflow = TRUE]
    ELSE [s EXCEPT !.ops[Lowest(FreeSlots(s))] = op]

\* the async function in slot i moves to its next await
await(s, i, pc) == [s EXCEPT !.ops[i].pc = pc]

\* the async function in slot i is over (how: "return" or "throw")
finish(s, i, how) ==
    [s EXCEPT !.ops[i] = Idle,
              !.obs.ended = TRUE, !.obs.how = how, !.obs.op = s.ops[i]]

\* an async function that never suspended is over
finishSync(s, op, how) ==
    [s EXCEPT !.obs.ended = TRUE, !.obs.how = how, !.obs.op = op]

\* JSON.stringify of the uploads list: per record its fields in order
\* (arxiv_id, sanitized_arxiv_id); a field that is undefined is not written
JSONstringify(list) ==
    [present |-> TRUE,
     text |-> [k \in 1..Len(list) |-> << list[k].arxiv_id, list[k].sanitized_arxiv_id >>]]

\* JSON.parse of such a text
JSONparse(text) ==
    [k \in 1..Len(text) |->
        [arxiv_id |-> text[k][1], sanitized_arxiv_id |-> text[k][2],
         original_arxiv_id |-> Undef]]

\* localStorage.getItem returns null: nothing was stored
NoItem == [present |-> FALSE, text |-> <<>>]

saveUploadsToStorage(s) == [s EXCEPT !.storage = JSONstringify(s.myUploads)]

\* addUploadToStorage without its call of saveUploadsToStorage
addUploadToStorage_NoSave(s, uploadData) == [s EXCEPT !.myUploads = Append(@, uploadData)]

addUploadToStorage(s, uploadData) ==
    saveUploadsToStorage([s EXCEPT !.myUploads = Append(@, uploadData)])

show_pagination(s) ==
    [s EXCEPT !.paginationVisible = (s.currentView = "search" /\ s.currentQuery # <<>>)]

clearResults(s) == [s EXCEPT !.cards = {}, !.uploadCards = 0, !.disabled.summarize = {}]

\* fetchResults up to its await fetch
fetchResults(s) ==
    suspend(fetch(clearResults(setApiCallState(s, TRUE)), "search", s.currentQuery),
            Op("fetchResults", "search", NoPaper, Undef, "-"))

showSearchView(s, skipFetch) ==
    LET s1 == [s EXCEPT !.currentView = "search", !.paperViewVisible = FALSE,
                        !.searchSectionVisible = TRUE, !.paginationVisible = TRUE]
        s2 == IF ~skipFetch /\ s1.currentQuery # <<>> /\ ~s1.isApiCallInProgress
              THEN fetchResults(s1)
              ELSE IF s1.currentQuery = <<>> THEN clearResults(s1)
              ELSE s1
    IN show_pagination(s2)

\* displayUploadsList: with an empty list it assigns to the undeclared
\* uploadCard, a ReferenceError, after clearing the container
displayUploadsList(s) ==
    IF Len(s.myUploads) = 0 THEN throw(clearResults(s))
    ELSE [clearResults(s) EXCEPT !.uploadCards = Len(s.myUploads)]

showUploadsView(s) ==
    displayUploadsList(
        [s EXCEPT !.currentView = "uploads", !.paperViewVisible = FALSE,
                  !.searchSectionVisible = FALSE, !.currentQuery = <<>>,
                  !.paginationVisible = FALSE])

\* showPaperView leaving the search section displayed
showPaperView_KeepSearch(s) ==
    [s EXCEPT !.currentView = "paper", !.paperViewVisible = TRUE,
              !.enteredFrom = IF s.currentView = "paper" THEN @ ELSE s.currentView]

showPaperView(s) ==
    [s EXCEPT !.currentView = "paper", !.paperViewVisible = TRUE,
              !.searchSectionVisible = FALSE,
              !.enteredFrom = IF s.currentView = "paper" THEN @ ELSE s.currentView]

\* displayPaper without its call of showPaperView
displayPaper_NoShow(s, paperData) == [s EXCEPT !.paperContent = paperData]

displayPaper(s, paperData) == showPaperView([s EXCEPT !.paperContent = paperData])

\* window.history.pushState({}, '', .../paper/<id>), skipped on file://
pushPaperUrl(s, id) == IF s.fileProtocol THEN s ELSE [s EXCEPT !.location = id]

resetUploadSteps(s) == [s EXCEPT !.uploadSteps = StepsInitial]

stepDone(s, k) ==
    [s EXCEPT !.uploadSteps[k] = (@ \ {"active"}) \cup {"completed"}]
stepActive(s, k) == [s EXCEPT !.uploadSteps[k] = @ \cup {"active"}]

\* fetch(...) called by the async function in slot i
opFetch(s, i, ep, arg) ==
    [fetch(s, ep, arg) EXCEPT
        !.ops[i].nNet = @ + 1,
        !.ops[i].nPut = IF ep = "put" THEN @ + 1 ELSE @,
        !.ops[i].nEnq = IF ep = "enqueue" THEN @ + 1 ELSE @]

\* an async function whose first fetch is already out when it suspends
Started(op) == [op EXCEPT !.nNet = 1]

\* the response the step handles, for the record
saw(s, resp) == [s EXCEPT !.obs.resp = resp]

\* --------------------------------------------------------- fetchResults
IsManualUpload(id) == Len(id) >= 3 /\ SubSeq(id, 1, 3) = <<"m", "u", "-">>

displayResults(s, data) ==
    LET s1 == clearResults(show_pagination(s))
    IN IF ~data.has_papers THEN throw(s1)
       ELSE [s1 EXCEPT
                !.cards = { id \in data.papers : ~Truthy(id) \/ ~IsManualUpload(id) },
                !.hasNextPage = data.has_next_page,
                !.obs.displayed = TRUE,
                !.prevDisabled = (s.currentPage = 0),
                !.nextDisabled = ~data.has_next_page]

fetchResults_finally(s, i) == finish(setApiCallState(s, FALSE), i, "return")

fetchResults_catch(s, i) ==
    fetchResults_finally(
        showToast([s EXCEPT !.obs.threw = FALSE],
                  "Failed to fetch results. Please try again.", "error"), i)

\* fetchResults after its awaits
fetchResults_resume(s, i, resp) ==
    IF resp.net = "rejected" \/ resp.body.kind # "object" THEN fetchResults_catch(s, i)
    ELSE IF resp.body.error # "undefined"
         THEN fetchResults_finally(showToast(s, resp.body.error, "error"), i)
    ELSE IF displayResults(s, resp.body).obs.threw
         THEN fetchResults_catch(displayResults(s, resp.body), i)
    ELSE fetchResults_finally(displayResults(s, resp.body), i)

\* ----------------------------------------------------------- enqueuePaper
QueuedMsg == "Paper has been queued for summarizing"
QueuedUploadMsg == "Paper has been queued for summarization"
QueueFailedMsg == "There was an issue queuing the paper for summarization"
CouldNotMsg == "Could not summarize paper"

enqueued(s, resp) ==
    [s EXCEPT !.obs.enqueued = IF enqueuePaper(resp) THEN "true" ELSE "false"]

\* -------------------------------------------------- processPaperSummary
processPaperSummary_finally(s, i) ==
    finish(setApiCallState(setButtonLoading(s, s.ops[i].paper.arxiv_id, FALSE), FALSE),
           i, "return")

\* processPaperSummary up to its first await.  The two identifiers are
\* computed after setApiCallState(true) and before the try block.
processPaperSummary(s, paperData) ==
    LET s1 == setApiCallState(s, TRUE)
    IN IF ~Truthy(paperData.sanitized_arxiv_id) /\ ~Truthy(paperData.arxiv_id)
       THEN finishSync(throw(s1),
                       Op("processPaperSummary", "-", paperData, Undef, "-"), "throw")
       ELSE LET sanitizedArxivId ==
                    IF Truthy(paperData.sanitized_arxiv_id)
                    THEN paperData.sanitized_arxiv_id
                    ELSE sanitizeArxivId(paperData.arxiv_id)
            IN suspend(fetch(s1, "paper", sanitizedArxivId),
                       Started(Op("processPaperSummary", "paper", paperData,
                                  sanitizedArxivId, "-")))

\* processPaperSummary submitting the task whatever the lookup reports
processPaperSummary_resume_AlwaysEnqueue(s0, i, resp) ==
    await(opFetch([s0 EXCEPT !.obs.case = PaperCase(resp)], i, "enqueue",
                  s0.ops[i].paper.arxiv_id), i, "enqueue")

\* after await fetch / response.json() of the paper endpoint
processPaperSummary_resume(s0, i, resp) ==
    LET c == PaperCase(resp)
        s == [s0 EXCEPT !.obs.case = c]
    IN CASE c = "throw" ->
              processPaperSummary_finally(showToast(s, CouldNotMsg, "error"), i)
         [] c = "ready" ->
              processPaperSummary_finally(
                  displayPaper(pushPaperUrl([s EXCEPT !.currentPaperData = resp.body],
                                            s.ops[i].id),
                               resp.body), i)
         [] c = "processing" ->
              processPaperSummary_finally(
                  showToast(s, "The paper is being summarized. Please check back later.",
                            "info"), i)
         [] c = "notfound" ->
              await(opFetch(s, i, "enqueue", s.ops[i].paper.arxiv_id), i, "enqueue")
         [] OTHER ->
              processPaperSummary_finally(showToast(s, CouldNotMsg, "error"), i)

\* processPaperSummary re-sending a submission that enqueuePaper reports failed
processPaperSummary_enqueued_Retry(s, i, resp) ==
    IF enqueuePaper(resp)
    THEN processPaperSummary_finally(showToast(enqueued(s, resp), QueuedMsg, "success"), i)
    ELSE await(opFetch(enqueued(s, resp), i, "enqueue", s.ops[i].paper.arxiv_id),
               i, "enqueue")

\* after await enqueuePaper(paperData): the returned boolean is not read
processPaperSummary_enqueued(s, i, resp) ==
    processPaperSummary_finally(showToast(enqueued(s, resp), QueuedMsg, "success"), i)

\* ------------------------------------------------------------ fetchPaper
fetchPaper_finally(s, i) == finish(setApiCallState(s, FALSE), i, "return")

\* fetchPaper up to its await
fetchPaper(s, arxivId) ==
    LET s1 == showToast(setApiCallState(s, TRUE), "Loading paper...", "info")
    IN IF s1.fileProtocol /\ s1.currentPaperData.kind = "object"
       THEN finishSync(setApiCallState(displayPaper(s1, s1.currentPaperData), FALSE),
                       Op("fetchPaper", "-", NoPaper, arxivId, "-"), "return")
       ELSE suspend(fetch(s1, "paper", arxivId),
                    Started(Op("fetchPaper", "paper", NoPaper, arxivId, "-")))

fetchPaper_resume(s0, i, resp) ==
    LET c == PaperCase(resp)
        s == [s0 EXCEPT !.obs.case = c]
    IN CASE c = "throw" ->
              fetchPaper_finally(showToast(showSearchView(s, FALSE), CouldNotMsg, "error"), i)
         [] c = "ready" ->
              fetchPaper_finally(displayPaper(s, resp.body), i)
         [] c = "processing" ->
              fetchPaper_finally(
                  showToast(showSearchView(s, FALSE),
                            "The paper is being summarized. Please check back later.",
                            "info"), i)
         [] OTHER ->
              fetchPaper_finally(
                  showToast(showSearchView(s, FALSE),
                            "Paper not found or not yet summarized.", "error"), i)

\* ------------------------------------------------------------ uploadFile
SupportedExts == { "pdf", "docx", "txt" }

uploadFile_finally(s, i) ==
    finish(setApiCallState(setUploadButtonLoading(s, FALSE), FALSE), i, "return")

\* catch (err) that closes the modal and reports nothing
uploadFile_catch_Silent(s, i) == uploadFile_finally([s EXCEPT !.uploadModalOpen = FALSE], i)

\* catch (err) that also records the failed upload in the list
uploadFile_catch_Records(s, i) ==
    uploadFile_finally(
        showToast(addUploadToStorage([s EXCEPT !.uploadModalOpen = FALSE],
                                     UploadRecord(Len(s.myUploads) + 1)),
                  "Upload error", "error"), i)

\* catch (err): close the modal and report; the step indicators are left
uploadFile_catch(s, i) ==
    uploadFile_finally(
        showToast([s EXCEPT !.uploadModalOpen = FALSE], "Upload error", "error"), i)

\* uploadFile without the rejection of other extensions: they go the pdf way
uploadFile_NoReject(s, file) ==
    IF file = NoFile THEN showToast(s, "Please select a file", "error")
    ELSE LET s1 == [setUploadButtonLoading(setApiCallState(s, TRUE), TRUE)
                       EXCEPT !.uploadModalOpen = TRUE]
             extension == ExtLower(file)
         IN IF extension \in { "docx", "txt" }
            THEN suspend(stepActive(stepDone(s1, 1), 2),
                         Op("uploadFile", "convert", NoPaper, Undef, extension))
            ELSE suspend(s1, Op("uploadFile", "hash", NoPaper, Undef, extension))

\* uploadFile up to its first await (file: the extension of the chosen
\* file's name, or NoFile)
uploadFile(s, file) ==
    IF file = NoFile THEN showToast(s, "Please select a file", "error")
    ELSE LET s1 == [setUploadButtonLoading(setApiCallState(s, TRUE), TRUE)
                       EXCEPT !.uploadModalOpen = TRUE]
             extension == ExtLower(file)
         IN IF extension = "pdf"
            THEN suspend(s1, Op("uploadFile", "hash", NoPaper, Undef, extension))
            ELSE IF extension \in { "docx", "txt" }
            THEN suspend(stepActive(stepDone(s1, 1), 2),
                         Op("uploadFile", "convert", NoPaper, Undef, extension))
            ELSE finishSync(
                     setApiCallState(
                         setUploadButtonLoading(
                             showToast([s1 EXCEPT !.uploadModalOpen = FALSE],
                                       "Unsupported file type. Please upload PDF, DOCX, or TXT.",
                                       "error"),
                             FALSE),
                         FALSE),
                     Op("uploadFile", "-", NoPaper, Undef, extension), "return")

\* "Move to step 3" and the PUT of the artifact
uploadFile_put(s, i) ==
    LET s1 == IF s.ops[i].ext = "pdf"
              THEN stepActive(stepDone(s, 1), 3)
              ELSE stepActive(stepDone(s, 2), 3)
    IN await(opFetch(s1, i, "put", Undef), i, "put")

\* after the awaits of the conversion (arrayBuffer / text, mammoth, html2pdf)
uploadFile_converted(s, i, ok) ==
    IF ok THEN await(s, i, "hash") ELSE uploadFile_catch(s, i)

\* what generatePdfHash returned: null, the empty string or a fingerprint
HashCase(pdfHash) ==
    IF pdfHash = Null THEN "null" ELSE IF pdfHash = <<>> THEN "empty" ELSE "hash"

\* uploadFile querying the dedup endpoint whatever generatePdfHash returned
uploadFile_hashed_AlwaysProbe(s0, i, text) ==
    await(opFetch([s0 EXCEPT !.obs.case = HashCase(generatePdfHash(text))],
                  i, "hash", generatePdfHash(text)), i, "probe")

\* after await generatePdfHash(...): probe only for a truthy hash
uploadFile_hashed(s0, i, text) ==
    LET pdfHash == generatePdfHash(text)
        s == [s0 EXCEPT !.obs.case = HashCase(pdfHash)]
    IN IF Truthy(pdfHash)
       THEN await(opFetch(s, i, "hash", pdfHash), i, "probe")
       ELSE uploadFile_put(s, i)

\* uploadFile_hit without the early return: the upload goes on after the display
uploadFile_hit_NoReturn(s, i, matchingPaper) ==
    LET s1 == showToast(resetUploadSteps([s EXCEPT !.uploadModalOpen = FALSE,
                                                   !.ops[i].hit = TRUE]),
                        "Existing summary found for uploaded file", "success")
        s2 == [s1 EXCEPT !.currentPaperData = matchingPaper]
    IN uploadFile_put(displayPaper(s2, matchingPaper), i)

\* a matching paper was found: show it and return without uploading
uploadFile_hit(s, i, matchingPaper) ==
    LET s1 == showToast(resetUploadSteps([s EXCEPT !.uploadModalOpen = FALSE,
                                                   !.ops[i].hit = TRUE]),
                        "Existing summary found for uploaded file", "success")
        s2 == [s1 EXCEPT !.currentPaperData = matchingPaper]
        s3 == IF Truthy(matchingPaper.sanitized_arxiv_id)
              THEN pushPaperUrl(s2, matchingPaper.sanitized_arxiv_id)
              ELSE s2
    IN uploadFile_finally(displayPaper(s3, matchingPaper), i)

\* after await checkPaperHashExists(pdfHash)
uploadFile_probed(s, i, resp) ==
    LET r == checkPaperHashExists(resp)
        s1 == [saw(s, resp) EXCEPT !.obs.ret = r]
    IN IF r.threw THEN uploadFile_catch(s1, i)
       ELSE IF r.value.kind = "object" THEN uploadFile_hit(s1, i, r.value)
       ELSE uploadFile_put(s1, i)

\* uploadFile that does not read res.ok: the record is appended and the task
\* submitted whatever the PUT answered
uploadFile_uploaded_NoOkCheck(s, i, resp) ==
    LET n == Len(s.myUploads) + 1
        s1 == addUploadToStorage(stepDone(s, 3), UploadRecord(n))
    IN await(opFetch(s1, i, "enqueue", ManualId(n)), i, "enqueue")

\* after await fetch(uploadUrl, PUT)
uploadFile_uploaded(s, i, resp) ==
    IF resp.net = "rejected" \/ ~resp.ok THEN uploadFile_catch(s, i)
    ELSE LET n == Len(s.myUploads) + 1
             s1 == addUploadToStorage(stepDone(s, 3), UploadRecord(n))
         IN await(opFetch(s1, i, "enqueue", ManualId(n)), i, "enqueue")

\* after await enqueuePaper(dummyPaperData), which never throws: the toast,
\* the delayed close of the modal, then finally
uploadFile_enqueued(s, i, resp) ==
    uploadFile_finally(
        [showToast(enqueued(s, resp), QueuedUploadMsg, "success")
            EXCEPT !.timers = @ + 1], i)

\* the setTimeout callback, one second after the enqueue
uploadFile_timeout(s) ==
    showUploadsView(
        showToast(resetUploadSteps([s EXCEPT !.uploadModalOpen = FALSE,
                                             !.timers = @ - 1]),
                  "File uploaded successfully!", "success"))

\* -------------------------------------------------------------- handlers
handleSearch(s, raw) ==
    IF s.isApiCallInProgress THEN refuse(s)
    ELSE LET s1 == [s EXCEPT !.currentQuery = Trim(raw)]
         IN IF s1.currentQuery = <<>>
            THEN showToast(s1, "Please enter a search query", "error")
            ELSE fetchResults([showSearchView(s1, TRUE) EXCEPT !.currentPage = 0])

\* handleSortChange without the reset of currentPage
handleSortChange_NoReset(s, sortBy) ==
    IF s.isApiCallInProgress THEN refuse(s)
    ELSE LET s1 == [s EXCEPT !.currentSortBy = sortBy]
         IN IF s1.currentView = "search" /\ s1.currentQuery # <<>>
            THEN fetchResults(s1) ELSE s1

handleSortChange(s, sortBy) ==
    IF s.isApiCallInProgress THEN refuse(s)
    ELSE LET s1 == [s EXCEPT !.currentSortBy = sortBy, !.currentPage = 0]
         IN IF s1.currentView = "search" /\ s1.currentQuery # <<>>
            THEN fetchResults(s1) ELSE s1

handlePageChange(s, delta) ==
    IF s.isApiCallInProgress THEN refuse(s)
    ELSE LET s1 == [s EXCEPT !.currentPage = @ + delta]
         IN IF s1.currentView = "search" THEN fetchResults(s1) ELSE s1

searchTabClick(s) ==
    IF ~s.isApiCallInProgress THEN showSearchView(s, FALSE) ELSE refuse(s)

uploadsTabClick(s) ==
    IF ~s.isApiCallInProgress THEN showUploadsView(s) ELSE refuse(s)

\* the listener of returnToSearchBtn; pushState is skipped when the view
\* function threw
returnToSearchClick(s) ==
    IF s.isApiCallInProgress THEN refuse(s)
    ELSE LET s1 == IF s.currentView = "uploads" THEN showUploadsView(s)
                   ELSE showSearchView(s, FALSE)
         IN IF s1.obs.threw \/ s1.fileProtocol THEN s1
            ELSE [s1 EXCEPT !.location = Base]

\* the popstate listener without its check of isApiCallInProgress
popstate_NoCheck(s) ==
    IF s.location # Base THEN fetchPaper(s, s.location)
    ELSE showSearchView(s, FALSE)

\* the popstate listener; the browser has already changed the location
popstate(s) ==
    IF s.isApiCallInProgress THEN refuse(s)
    ELSE IF s.location # Base THEN fetchPaper(s, s.location)
    ELSE showSearchView(s, FALSE)

summarizeClick(s, paper) ==
    IF s.isApiCallInProgress THEN refuse(s)
    ELSE processPaperSummary(setButtonLoading(s, paper.arxiv_id, TRUE), paper)

uploadCardClick(s, upload) ==
    IF ~s.isApiCallInProgress THEN processPaperSummary(s, upload) ELSE refuse(s)

\* the click listener of uploadButton: uploadInput.click() opens the chooser
uploadButtonClick(s) ==
    IF ~s.isApiCallInProgress THEN [s EXCEPT !.pickerOpen = TRUE] ELSE refuse(s)

\* ======================================================== frontend/app.js
\* The client of frontend/app.js: search, requestSummary and pollForSummary.
\* Its state is the record `app`; each function below maps the record before
\* a call to the record after it.
MaxAppEvents == 4
MaxAppRequests == 2

P2 == <<"b">>
AppIds == { P1, P2 }
AppPaperSets == { {}, {P1}, {P1, P2} }

\* a parsed record-by-identifier body as pollForSummary reads it
AppPollBody(proc, sum, perr, authors) ==
    [kind |-> "object", error |-> "undefined", processing |-> proc, summary |-> sum,
     processing_error |-> perr, has_authors |-> authors]
AppNoBody == [AppPollBody("undefined", Undef, "undefined", FALSE) EXCEPT !.kind = "none"]
AppPollResponses ==
    { [net |-> "rejected", body |-> AppNoBody],
      [net |-> "resolved", body |-> [AppNoBody EXCEPT !.kind = "unparsable"]],
      [net |-> "resolved", body |-> [AppNoBody EXCEPT !.kind = "null"]],
      [net |-> "resolved", body |-> [AppNoBody EXCEPT !.kind = "object", !.error = "boom"]] }
    \cup { [net |-> "resolved", body |-> b] :
             b \in { AppPollBody("true", Undef, "undefined", FALSE),
                     AppPollBody("true", <<"s">>, "undefined", TRUE),
                     AppPollBody("false", <<"s">>, "undefined", TRUE),
                     AppPollBody("false", <<"s">>, "undefined", FALSE),
                     AppPollBody("undefined", <<"s">>, "undefined", TRUE),
                     AppPollBody("false", <<>>, "undefined", TRUE),
                     AppPollBody("undefined", Undef, "undefined", FALSE),
                     AppPollBody("false", Undef, "failed", FALSE),
                     AppPollBody("true", Undef, "failed", FALSE) } }
AppSearchResponses ==
    { RespReject, Resp(TRUE, Unparsable), Resp(TRUE, NullBody),
      Resp(TRUE, BError), Resp(TRUE, NoFields) }
    \cup { Resp(TRUE, SearchBody(ps, n)) : ps \in AppPaperSets, n \in BOOLEAN }

NoRequests == [id \in AppIds |-> 0]

\* what the last step of the client did
AppNoObs(name) ==
    [name |-> name, id |-> Undef, queried |-> FALSE, scheduled |-> FALSE,
     shown |-> FALSE, error |-> FALSE, resp |-> [net |-> "rejected", body |-> AppNoBody]]

\* the page of frontend/app.js as loaded
AppLoaded ==
    [currentPage |-> 0, currentQuery |-> <<>>, currentSortBy |-> "relevance",
     hasNextPage |-> FALSE, cards |-> {}, paginationVisible |-> FALSE,
     prevDisabled |-> TRUE, nextDisabled |-> TRUE,
     summarySectionVisible |-> FALSE, loading |-> FALSE, summaryContent |-> Undef,
     errorModal |-> "none",
     searches |-> 0,                \* fetchResults calls awaiting the search response
     enqueues |-> NoRequests,       \* requestSummary calls awaiting POST /enqueue
     polls |-> NoRequests,          \* pollForSummary calls awaiting GET /paper/{id}
     pollTimers |-> NoRequests,     \* pending setTimeout(() => pollForSummary(id), 5000)
     nEvents |-> 0, obs |-> AppNoObs("load")]

AppBegin(name) == [app EXCEPT !.obs = AppNoObs(name)]
AppEvent(name) == [AppBegin(name) EXCEPT !.nEvents = @ + 1]

Sum(f) == f[P1] + f[P2]
AppOutstanding(a) == a.searches + Sum(a.enqueues) + Sum(a.polls) + Sum(a.pollTimers)

AppWithinBounds(a) ==
    /\ a.nEvents <= MaxAppEvents
    /\ AppOutstanding(a) <= MaxAppRequests
    /\ Abs(a.currentPage) <= MaxPage

app_showError(a, message) == [a EXCEPT !.errorModal = message, !.obs.error = TRUE]

\* fetchResults up to its await fetch
app_fetchResults(a) ==
    [a EXCEPT !.cards = {}, !.summarySectionVisible = FALSE, !.summaryContent = Undef,
              !.searches = @ + 1]

app_show_pagination(a) == [a EXCEPT !.paginationVisible = TRUE]

app_displayResults(a, data) ==
    [app_show_pagination(a) EXCEPT
        !.cards = data.papers, !.hasNextPage = data.has_next_page,
        !.prevDisabled = (a.currentPage = 0), !.nextDisabled = ~data.has_next_page]

\* fetchResults after its awaits
app_fetchResults_resume(a, resp) ==
    LET a1 == [a EXCEPT !.searches = @ - 1]
        failed == "Failed to fetch results. Please try again."
    IN IF resp.net = "rejected" \/ resp.body.kind # "object" THEN app_showError(a1, failed)
       ELSE IF resp.body.error # "undefined" THEN app_showError(a1, resp.body.error)
       ELSE IF ~resp.body.has_papers
            THEN app_showError([app_show_pagination(a1) EXCEPT !.cards = {}], failed)
       ELSE app_displayResults(a1, resp.body)

app_handleSearch(a, raw) ==
    LET a1 == [a EXCEPT !.currentQuery = Trim(raw)]
    IN IF a1.currentQuery = <<>> THEN app_showError(a1, "Please enter a search query")
       ELSE app_fetchResults([a1 EXCEPT !.currentPage = 0])

app_handleSortChange(a, sortBy) ==
    app_fetchResults([a EXCEPT !.currentSortBy = sortBy, !.currentPage = 0])

app_handlePageChange(a, delta) == app_fetchResults([a EXCEPT !.currentPage = @ + delta])

\* pollForSummary up to its await fetch
app_pollForSummary(a, arxivId) ==
    [a EXCEPT !.polls[arxivId] = @ + 1, !.obs.queried = TRUE, !.obs.id = arxivId]

\* pollForSummary that stops at a processing record instead of polling again
app_pollForSummary_resume_NoReschedule(a, arxivId, resp) ==
    LET a1 == [a EXCEPT !.polls[arxivId] = @ - 1, !.obs.id = arxivId, !.obs.resp = resp]
        failed == "Failed to fetch summary. Please try again."
        data == resp.body
    IN IF resp.net = "rejected" \/ data.kind # "object" THEN app_showError(a1, failed)
       ELSE IF data.error # "undefined" THEN app_showError(a1, data.error)
       ELSE IF data.processing = "true" THEN a1
       ELSE IF Truthy(data.summary)
            THEN IF data.has_authors
                 THEN [a1 EXCEPT !.loading = FALSE, !.summaryContent = arxivId,
                                 !.obs.shown = TRUE]
                 ELSE app_showError([a1 EXCEPT !.loading = FALSE], failed)
       ELSE IF data.processing_error # "undefined"
            THEN app_showError(a1, data.processing_error)
       ELSE a1

\* pollForSummary after its awaits
app_pollForSummary_resume(a, arxivId, resp) ==
    LET a1 == [a EXCEPT !.polls[arxivId] = @ - 1, !.obs.id = arxivId, !.obs.resp = resp]
        failed == "Failed to fetch summary. Please try again."
        data == resp.body
    IN IF resp.net = "rejected" \/ data.kind # "object" THEN app_showError(a1, failed)
       ELSE IF data.error # "undefined" THEN app_showError(a1, data.error)
       ELSE IF data.processing = "true"
            THEN [a1 EXCEPT !.pollTimers[arxivId] = @ + 1, !.obs.scheduled = TRUE]
       ELSE IF Truthy(data.summary)
            THEN IF data.has_authors
                 THEN [a1 EXCEPT !.loading = FALSE, !.summaryContent = arxivId,
                                 !.obs.shown = TRUE]
                 ELSE app_showError([a1 EXCEPT !.loading = FALSE], failed)
       ELSE IF data.processing_error # "undefined"
            THEN app_showError(a1, data.processing_error)
       ELSE a1

\* the setTimeout callback of pollForSummary
app_pollTimer(a, arxivId) ==
    app_pollForSummary([a EXCEPT !.pollTimers[arxivId] = @ - 1], arxivId)

\* requestSummary up to its await fetch
app_requestSummary(a, arxivId) ==
    [a EXCEPT !.summarySectionVisible = TRUE, !.loading = TRUE,
              !.summaryContent = Undef, !.enqueues[arxivId] = @ + 1,
              !.obs.id = arxivId]

\* requestSummary after its awaits
app_requestSummary_resume(a, arxivId, resp) ==
    LET a1 == [a EXCEPT !.enqueues[arxivId] = @ - 1, !.obs.id = arxivId]
    IN IF resp.net = "rejected" \/ resp.body.kind # "object"
       THEN app_showError(a1, "Failed to request summary. Please try again.")
       ELSE IF resp.body.error # "undefined" THEN app_showError(a1, resp.body.error)
       ELSE app_pollForSummary(a1, arxivId)

\* ------------------------------------------------------------------ Init
\* the page as loaded, before DOMContentLoaded
Loaded(fp, loc, stored, pd, nd) ==
    [currentPage |-> 0, currentQuery |-> <<>>, currentSortBy |-> "relevance",
     hasNextPage |-> FALSE, currentView |-> "search", currentPaperData |-> NullBody,
     myUploads |-> <<>>, isApiCallInProgress |-> FALSE,
     storage |-> stored, location |-> loc, fileProtocol |-> fp,
     uploadModalOpen |-> FALSE, uploadSteps |-> StepsInitial,
     paperViewVisible |-> FALSE, searchSectionVisible |-> TRUE,
     paginationVisible |-> FALSE, cards |-> {}, uploadCards |-> 0,
     paperContent |-> NoBody, pickerOpen |-> FALSE,
     ops |-> [i \in 1..MaxOps |-> Idle], timers |-> 0, nEvents |-> 0,
     prevDisabled |-> pd, nextDisabled |-> nd, enteredFrom |-> "none",
     disabled |-> NoneDisabled,
     obs |-> NoObs("initApp", FALSE)]

loadUploadsFromStorage(s) ==
    IF s.storage.present THEN [s EXCEPT !.myUploads = JSONparse(s.storage.text)] ELSE s

checkForPaperInUrl(s) ==
    IF s.location # Base THEN fetchPaper(s, s.location) ELSE s

initApp(s) == checkForPaperInUrl(loadUploadsFromStorage(s))

Locations == { Base, sanitizeArxivId(P1) }

\* what an earlier visit may have left in the slot 'papergist-uploads' (a
\* filled slot is taken with the page served over http at its base URL)
StoredUploads == { NoItem, JSONstringify(<< UploadRecord(1) >>) }

\* the variables of the page hold the state t
Starts(t) ==
    /\ currentPage = t.currentPage
    /\ currentQuery = t.currentQuery
    /\ currentSortBy = t.currentSortBy
    /\ hasNextPage = t.hasNextPage
    /\ currentView = t.currentView
    /\ currentPaperData = t.currentPaperData
    /\ myUploads = t.myUploads
    /\ isApiCallInProgress = t.isApiCallInProgress
    /\ storage = t.storage
    /\ location = t.location
    /\ fileProtocol = t.fileProtocol
    /\ uploadModalOpen = t.uploadModalOpen
    /\ uploadSteps = t.uploadSteps
    /\ paperViewVisible = t.paperViewVisible
    /\ searchSectionVisible = t.searchSectionVisible
    /\ paginationVisible = t.paginationVisible
    /\ cards = t.cards
    /\ uploadCards = t.uploadCards
    /\ paperContent = t.paperContent
    /\ pickerOpen = t.pickerOpen
    /\ ops = t.ops
    /\ timers = t.timers
    /\ nEvents = t.nEvents
    /\ prevDisabled = t.prevDisabled
    /\ nextDisabled = t.nextDisabled
    /\ enteredFrom = t.enteredFrom
    /\ disabled = t.disabled
    /\ obs = t.obs

Init ==
    \E fp \in BOOLEAN, loc \in Locations, stored \in StoredUploads,
       pd \in BOOLEAN, nd \in BOOLEAN :
        /\ stored = NoItem \/ (~fp /\ loc = Base)
        /\ Starts(initApp(Loaded(fp, loc, stored, pd, nd)))
        /\ app = AppLoaded
        /\ hashing = Hashing(Fail, Fail)

\* --------------------------------------------------------------- actions
\* user and browser events
CanDeliver == nEvents < MaxEvents

Search ==
    \E raw \in RawQueries :
        /\ CanDeliver /\ searchSectionVisible
        /\ Commit(handleSearch(Event("handleSearch"), raw))

SortChange ==
    \E sortBy \in SortKeys :
        /\ CanDeliver /\ searchSectionVisible
        /\ Commit(handleSortChange(Event("handleSortChange"), sortBy))

PageChange ==
    \E delta \in { -1, 1 } :
        /\ CanDeliver /\ paginationVisible
        /\ Commit(handlePageChange(Event("handlePageChange"), delta))

SearchTab == CanDeliver /\ Commit(searchTabClick(Event("searchTab")))

UploadsTab == CanDeliver /\ Commit(uploadsTabClick(Event("uploadsTab")))

ReturnToSearch ==
    /\ CanDeliver /\ paperViewVisible
    /\ Commit(returnToSearchClick(Event("returnToSearch")))

\* the browser moves to another history entry, then fires popstate
Popstate ==
    \E loc \in Locations :
        /\ CanDeliver
        /\ Commit(popstate([Event("popstate") EXCEPT !.location = loc]))

Summarize ==
    \E id \in cards :
        /\ CanDeliver /\ ~paperViewVisible
        /\ Commit(summarizeClick(Event("summarize"), CardPaper(id)))

UploadCard ==
    \E k \in 1..uploadCards :
        /\ CanDeliver /\ ~paperViewVisible
        /\ Commit(uploadCardClick(Event("uploadCard"), myUploads[k]))

UploadButton ==
    /\ CanDeliver /\ ~pickerOpen
    /\ Commit(uploadButtonClick(Event("uploadButton")))

\* uploadInput.click() opens the browser's file chooser, which is shown in
\* parallel to the page: other events may be delivered while it is open.
\* The file chooser is dismissed without a selection
PickerCancel ==
    /\ CanDeliver /\ pickerOpen
    /\ Commit([Event("pickerCancel") EXCEPT !.pickerOpen = FALSE])

\* the change event of uploadInput: the chooser closes with a selection
FileChosen ==
    \E file \in FileExts \cup { NoFile } :
        /\ CanDeliver /\ pickerOpen
        /\ Commit(uploadFile([Event("uploadFile") EXCEPT !.pickerOpen = FALSE], file))

\* timer callback
UploadTimeout ==
    /\ timers > 0
    /\ Commit(uploadFile_timeout(Begin("uploadTimeout")))

\* continuations: the awaited promise of the function in slot i settles
Waiting(kind, pc) == { i \in 1..MaxOps : ops[i].kind = kind /\ ops[i].pc = pc }

SearchResponse ==
    \E i \in Waiting("fetchResults", "search"), resp \in SearchResponses :
        Commit(fetchResults_resume(Settled("fetchResults", "search", resp), i, resp))

SummaryPaperResponse ==
    \E i \in Waiting("processPaperSummary", "paper"), resp \in PaperResponses :
        Commit(processPaperSummary_resume(Settled("processPaperSummary", "paper", resp), i, resp))

SummaryEnqueueResponse ==
    \E i \in Waiting("processPaperSummary", "enqueue"), resp \in EnqueueResponses :
        Commit(processPaperSummary_enqueued(Settled("processPaperSummary.enqueue", "enqueue", resp), i, resp))

FetchPaperResponse ==
    \E i \in Waiting("fetchPaper", "paper"), resp \in PaperResponses :
        Commit(fetchPaper_resume(Settled("fetchPaper", "paper", resp), i, resp))

UploadConverted ==
    \E i \in Waiting("uploadFile", "convert"), ok \in BOOLEAN :
        Commit(uploadFile_converted(Begin("uploadFile.convert"), i, ok))

UploadHashed ==
    \E i \in Waiting("uploadFile", "hash"), text \in FirstPageTexts :
        Commit(uploadFile_hashed(Begin("uploadFile.hash"), i, text))

UploadProbed ==
    \E i \in Waiting("uploadFile", "probe"), resp \in HashResponses :
        Commit(uploadFile_probed(Settled("uploadFile.probe", "hash", resp), i, resp))

UploadPutResponse ==
    \E i \in Waiting("uploadFile", "put"), resp \in PutResponses :
        Commit(uploadFile_uploaded(Settled("uploadFile.put", "put", resp), i, resp))

UploadEnqueueResponse ==
    \E i \in Waiting("uploadFile", "enqueue"), resp \in EnqueueResponses :
        Commit(uploadFile_enqueued(Settled("uploadFile.enqueue", "enqueue", resp), i, resp))

Next ==
    \/ Search \/ SortChange \/ PageChange \/ SearchTab \/ UploadsTab
    \/ ReturnToSearch \/ Popstate \/ Summarize \/ UploadCard
    \/ UploadButton \/ PickerCancel \/ FileChosen \/ UploadTimeout
    \/ SearchResponse \/ SummaryPaperResponse \/ SummaryEnqueueResponse
    \/ FetchPaperResponse \/ UploadConverted \/ UploadHashed \/ UploadProbed
    \/ UploadPutResponse \/ UploadEnqueueResponse

Spec == Init /\ [][Next]_vars

\* the same client when every pending network, file-reading or conversion
\* step eventually settles and the function waiting for it runs on
FairSpec ==
    Spec /\ WF_vars(\/ SearchResponse \/ SummaryPaperResponse
                    \/ SummaryEnqueueResponse \/ FetchPaperResponse
                    \/ UploadConverted \/ UploadHashed \/ UploadProbed
                    \/ UploadPutResponse \/ UploadEnqueueResponse)

\* the client when the user only searches, opens My Uploads and asks for
\* summaries, and every pending request eventually settles
SummarizeNext ==
    \/ Search \/ UploadsTab \/ Summarize \/ UploadCard
    \/ SearchResponse \/ SummaryPaperResponse \/ SummaryEnqueueResponse
    \/ FetchPaperResponse

SummarizeSpec ==
    /\ Init /\ [][SummarizeNext]_vars
    /\ WF_vars(\/ SearchResponse \/ SummaryPaperResponse
               \/ SummaryEnqueueResponse \/ FetchPaperResponse)

\* ------------------------------------------- actions of frontend/app.js
pageVars == << currentPage, currentQuery, currentSortBy, hasNextPage, currentView,
               currentPaperData, myUploads, isApiCallInProgress, storage, location,
               fileProtocol, uploadModalOpen, uploadSteps, paperViewVisible,
               searchSectionVisible, paginationVisible, cards, uploadCards,
               paperContent, pickerOpen, ops, timers, nEvents, prevDisabled,
               nextDisabled, enteredFrom, disabled, obs >>

AppCommit(a) == AppWithinBounds(a) /\ app' = a /\ UNCHANGED << pageVars, hashing >>

AppCanDeliver == app.nEvents < MaxAppEvents

AppSearch ==
    \E raw \in RawQueries :
        /\ AppCanDeliver
        /\ AppCommit(app_handleSearch(AppEvent("handleSearch"), raw))

AppSortChange ==
    \E sortBy \in SortKeys :
        /\ AppCanDeliver
        /\ AppCommit(app_handleSortChange(AppEvent("handleSortChange"), sortBy))

AppPageChange ==
    \E delta \in { -1, 1 } :
        /\ AppCanDeliver /\ app.paginationVisible
        /\ AppCommit(app_handlePageChange(AppEvent("handlePageChange"), delta))

\* the click listener of a card's summarize button
AppSummarize ==
    \E id \in app.cards :
        /\ AppCanDeliver
        /\ AppCommit(app_requestSummary(AppEvent("requestSummary"), id))

AppCloseModal ==
    /\ AppCanDeliver /\ app.errorModal # "none"
    /\ AppCommit([AppEvent("closeModal") EXCEPT !.errorModal = "none"])

AppSearchResponse ==
    \E resp \in AppSearchResponses :
        /\ app.searches > 0
        /\ AppCommit(app_fetchResults_resume(AppBegin("fetchResults"), resp))

AppEnqueueResponse ==
    \E id \in AppIds, resp \in EnqueueResponses :
        /\ app.enqueues[id] > 0
        /\ AppCommit(app_requestSummary_resume(AppBegin("requestSummary.response"), id, resp))

AppPollResponse ==
    \E id \in AppIds, resp \in AppPollResponses :
        /\ app.polls[id] > 0
        /\ AppCommit(app_pollForSummary_resume(AppBegin("pollForSummary"), id, resp))

AppPollTimer ==
    \E id \in AppIds :
        /\ app.pollTimers[id] > 0
        /\ AppCommit(app_pollTimer(AppBegin("pollTimer"), id))

AppInit ==
    /\ Starts(initApp(Loaded(FALSE, Base, NoItem, TRUE, TRUE)))
    /\ app = AppLoaded
    /\ hashing = Hashing(Fail, Fail)

AppNext ==
    \/ AppSearch \/ AppSortChange \/ AppPageChange \/ AppSummarize \/ AppCloseModal
    \/ AppSearchResponse \/ AppEnqueueResponse \/ AppPollResponse \/ AppPollTimer

AppSpec == AppInit /\ [][AppNext]_vars

\* the same client when every request eventually settles and every timer
\* eventually fires
AppFairSpec ==
    AppSpec /\ WF_vars(\/ AppSearchResponse \/ AppEnqueueResponse
                       \/ AppPollResponse \/ AppPollTimer)

\* ====================================================== generatePdfHash
\* generatePdfHash as a function of the text PDF.js extracts from page 1:
\* the function is called for two texts drawn from HashTexts.
MaxTail == 2       \* characters of first-page text after the first 48

Rep(c, n) == [k \in 1..n |-> c]

\* first-page texts of exactly HashPrefixLen characters
HashHeads ==
    { Rep("a", HashPrefixLen - 1) \o << c >> : c \in { "A", " ", "b", "U+0130" } }
    \cup { [k \in 1..HashPrefixLen |-> IF k % 2 = 0 THEN " " ELSE "A"],
           Rep("U+0130", HashPrefixLen) }

\* what follows the first HashPrefixLen characters
HashTails == UNION { [1..n -> { "B", " " }] : n \in 0..MaxTail }

HashTexts ==
    FirstPageTexts \cup { head \o tail : head \in HashHeads, tail \in HashTails }

HashInit ==
    /\ Starts(initApp(Loaded(FALSE, Base, NoItem, TRUE, TRUE)))
    /\ app = AppLoaded
    /\ \E text \in HashTexts, other \in HashTexts : hashing = Hashing(text, other)

\* both calls of generatePdfHash return
GeneratePdfHash ==
    /\ ~hashing.returned
    /\ hashing' = [hashing EXCEPT !.hashStr = generatePdfHash(hashing.text),
                                  !.otherHashStr = generatePdfHash(hashing.other),
                                  !.returned = TRUE]
    /\ UNCHANGED << pageVars, app >>

HashNext == GeneratePdfHash

HashSpec == HashInit /\ [][HashNext]_vars

\* ================================================================ claims
InFlight == { i \in 1..MaxOps : ops[i].kind # "idle" }
WaitToast == [msg |-> WaitMsg, type |-> "info"]
ToastTypes == { obs.toasts[k].type : k \in DOMAIN obs.toasts }
ToastMsgs == { obs.toasts[k].msg : k \in DOMAIN obs.toasts }

\* C1: whenever an orchestrated operation's invocation finishes, by a return or by
\* an exception, isApiCallInProgress is false.
C1_ReleasedAtEveryExit == obs.ended => ~isApiCallInProgress

\* C2: at most one orchestrated operation is in flight, and no operation
\* executes setApiCallState(true) while isApiCallInProgress is already true.
C2_AtMostOneInFlight == Cardinality(InFlight) <= 1 /\ ~obs.reacquired

\* C3: a trigger that arrives while the lock is held only emits the 'please
\* wait' notice: no view-state field changes, no request is issued, and no
\* continuation or timer is left behind to run the action later.
RefusableTriggers ==
    { "handleSearch", "handleSortChange", "handlePageChange", "searchTab",
      "uploadsTab", "returnToSearch", "summarize", "uploadCard", "uploadButton",
      "popstate" }
C3_RefusedUnderLock ==
    [][ (isApiCallInProgress /\ nEvents' = nEvents + 1
            /\ obs'.name \in RefusableTriggers)
        => /\ obs'.toasts = << WaitToast >>
           /\ obs'.reqs = <<>>
           /\ ~obs'.acquired /\ ~obs'.ended
           /\ UNCHANGED << currentView, currentQuery, currentPage, currentSortBy >>
           /\ UNCHANGED << hasNextPage, currentPaperData, myUploads, storage,
                           isApiCallInProgress, uploadModalOpen, uploadSteps,
                           paperViewVisible, searchSectionVisible,
                           paginationVisible, cards, uploadCards, paperContent,
                           pickerOpen, ops, timers >> ]_vars
C3_Witness ==
    /\ obs.name = "popstate" /\ obs.held /\ isApiCallInProgress
    /\ obs.toasts = << WaitToast >>

\* the probe of this step returned a record
ProbeHit == obs.name = "uploadFile.probe" /\ obs.ret.value.kind = "object"

\* C4: an upload whose dedup probe returns a record issues no PUT and no
\* enqueue request: it ends in the step that sees the hit, with neither sent.
C4_HitSendsNothing ==
    /\ \A i \in InFlight : ~ops[i].hit
    /\ ProbeHit =>
          /\ obs.ended /\ obs.op.kind = "uploadFile" /\ obs.reqs = <<>>
          /\ obs.op.nPut = 0 /\ obs.op.nEnq = 0
C4_Witness == ProbeHit /\ obs.ended /\ obs.op.ext = "txt" /\ obs.op.nNet = 1

\* C5: when the probe hits, the operation ends in PaperDetail showing the
\* record the probe returned, with the progress modal closed, the step
\* indicators reset and the lock released.
C5_HitShowsExistingRecord ==
    ProbeHit =>
        /\ obs.ended
        /\ currentView = "paper" /\ paperViewVisible
        /\ paperContent = obs.ret.value /\ paperContent = obs.resp.body
        /\ ~uploadModalOpen /\ uploadSteps = StepsInitial
        /\ ~isApiCallInProgress
C5_Witness ==
    /\ ProbeHit /\ obs.ended /\ currentView = "paper" /\ paperContent = BHit
    /\ obs.op.ext = "docx"

\* C6: a file whose extension is none of pdf, docx, txt never reaches an
\* await of uploadFile: the operation ends in the step of the change event
\* with no request issued, an error notice and the lock released.
C6_UnsupportedRejected ==
    /\ \A i \in InFlight : ops[i].kind = "uploadFile" => ops[i].ext \in SupportedExts
    /\ (obs.ended /\ obs.op.kind = "uploadFile" /\ obs.op.ext \notin SupportedExts)
          => /\ obs.name = "uploadFile"
             /\ obs.reqs = <<>> /\ obs.op.nNet = 0
             /\ "error" \in ToastTypes
             /\ ~isApiCallInProgress
C6_Witness ==
    /\ obs.ended /\ obs.op.kind = "uploadFile" /\ obs.op.ext = "csv"
    /\ obs.acquired /\ ~isApiCallInProgress

\* C7: on the exits of uploadFile by unsupported type, conversion failure,
\* failed artifact upload or dedup hit, the progress modal is closed, the
\* step indicators are back in their initial state and the lock is released.
C7_UploadExitRestoresUi ==
    (obs.ended /\ obs.op.kind = "uploadFile"
        /\ obs.name \in { "uploadFile", "uploadFile.convert", "uploadFile.probe",
                          "uploadFile.put" })
    => ~uploadModalOpen /\ uploadSteps = StepsInitial /\ ~isApiCallInProgress

\* C8: checkPaperHashExists never raises, returns the body when the response
\* is successful and the body carries an arxiv_id, and null in every other case.
C8_ProbeFailsOpen ==
    obs.name = "uploadFile.probe" =>
        /\ ~obs.ret.threw
        /\ IF /\ obs.resp.net = "resolved" /\ obs.resp.ok
              /\ obs.resp.body.kind = "object" /\ Truthy(obs.resp.body.arxiv_id)
           THEN obs.ret.value = obs.resp.body
           ELSE obs.ret.value = NullBody
C8_Witness ==
    /\ obs.name = "uploadFile.probe" /\ obs.resp.net = "rejected"
    /\ obs.ret.value = NullBody /\ ~obs.ended

\* C9: when enqueuePaper reports failure, the calling operation shows a
\* failure notice and no 'queued' success notice.
C9_EnqueueFailureReported ==
    obs.enqueued = "false" =>
        /\ "error" \in ToastTypes
        /\ QueuedMsg \notin ToastMsgs /\ QueuedUploadMsg \notin ToastMsgs

\* C10: an operation requests the enqueue endpoint at most once, also when
\* the submission fails.
C10_EnqueueAtMostOnce ==
    /\ \A i \in InFlight : ops[i].nEnq <= 1
    /\ obs.ended => obs.op.nEnq <= 1
C10_Witness ==
    /\ obs.ended /\ obs.enqueued = "false" /\ obs.op.nEnq = 1
    /\ obs.op.kind = "processPaperSummary"

\* C11: the uploads list only grows, by one record appended at its end, its
\* earlier entries unchanged; whenever it has grown the persisted slot holds
\* the whole list, so that loadUploadsFromStorage on it gives the list back.
C11_UploadsAppendOnly ==
    [][ /\ Len(myUploads') \in { Len(myUploads), Len(myUploads) + 1 }
        /\ SubSeq(myUploads', 1, Len(myUploads)) = myUploads
        /\ (Len(myUploads') > Len(myUploads)) =>
              /\ storage'.present
              /\ JSONparse(storage'.text) = myUploads'
              /\ loadUploadsFromStorage(
                     Loaded(fileProtocol, Base, storage', TRUE, TRUE)).myUploads
                 = myUploads' ]_vars
C11_Witness ==
    /\ obs.name = "uploadFile.put" /\ Len(myUploads) = 2
    /\ myUploads[1] = UploadRecord(1) /\ myUploads[2] = UploadRecord(2)
    /\ storage = JSONstringify(myUploads)

\* C12: Return pressed in the paper view with the lock free makes the
\* current view the one from which the paper view was entered.
C12_ReturnRestoresPreviousView ==
    [][ (obs'.name = "returnToSearch" /\ ~isApiCallInProgress /\ currentView = "paper")
        => currentView' = enteredFrom ]_vars

\* C13: the view becomes 'paper' only in the step of an upload that sees a
\* dedup hit, or in the step of processPaperSummary or of fetchPaper that
\* sees a record with a non-empty summary and processing false.
C13_PaperViewOnlyOnReadyRecord ==
    [][ (currentView # "paper" /\ currentView' = "paper") =>
          \/ obs'.name = "uploadFile.probe" /\ obs'.ret.value.kind = "object"
          \/ obs'.name \in { "processPaperSummary", "fetchPaper" }
                /\ obs'.case = "ready" ]_vars

\* C14: the view is one of search, paper, uploads; the paper panel is
\* displayed iff the view is paper and the search section iff it is search.
C14_ViewAndSectionsAgree ==
    /\ currentView \in { "search", "paper", "uploads" }
    /\ paperViewVisible <=> currentView = "paper"
    /\ searchSectionVisible <=> currentView = "search"
C14_Witness ==
    /\ obs.name = "returnToSearch" /\ ~obs.held /\ enteredFrom = "uploads"
    /\ currentView = "search" /\ searchSectionVisible /\ ~paperViewVisible

\* C15: if the pagination is displayed then the view is search and
\* currentQuery is not empty.
C15_PaginationOnlyWithQuery ==
    paginationVisible => currentView = "search" /\ currentQuery # <<>>

\* C16: after the step of fetchResults that displays a search response and
\* releases the lock, prevPage is disabled iff currentPage is 0 and nextPage
\* is disabled iff the response's has_next_page was false.
C16_PageButtonsFollowPolicy ==
    (obs.name = "fetchResults" /\ obs.displayed /\ obs.ended /\ ~isApiCallInProgress)
    => /\ prevDisabled <=> currentPage = 0
       /\ nextDisabled <=> ~hasNextPage

\* C17: with the lock free, a non-empty query submission sets currentPage to
\* 0 and requests page 0 of the search; a sort change sets currentPage to 0
\* and requests page 0 with the new sort key iff the view is search and
\* currentQuery is not empty, and requests nothing otherwise.
C17_SubmitAndSortResetPage ==
    [][ /\ (obs'.name = "handleSearch" /\ ~isApiCallInProgress /\ currentQuery' # <<>>)
          => /\ currentPage' = 0
             /\ obs'.reqs = << Request("search", currentQuery', 0, currentSortBy) >>
        /\ (obs'.name = "handleSortChange" /\ ~isApiCallInProgress)
          => /\ currentPage' = 0
             /\ obs'.reqs = IF currentView = "search" /\ currentQuery # <<>>
                            THEN << Request("search", currentQuery, 0, currentSortBy') >>
                            ELSE <<>> ]_vars
C17_Witness ==
    /\ obs.name = "handleSortChange" /\ ~obs.held
    /\ currentSortBy = "lastUpdatedDate" /\ currentPage = 0
    /\ obs.reqs = << Request("search", currentQuery, 0, "lastUpdatedDate") >>

\* C18: handlePageChange called while the view is not search requests
\* nothing and leaves currentPage and the other view fields as they were.
C18_PageChangeOutsideSearchNoOp ==
    [][ (obs'.name = "handlePageChange" /\ currentView # "search")
        => /\ obs'.reqs = <<>>
           /\ UNCHANGED << currentPage, currentQuery, currentSortBy, hasNextPage,
                           currentView >> ]_vars

\* C19: the step that sees a submission to /enqueue succeed goes on to
\* query the record-by-identifier endpoint.
C19_SubmitHandsOffToPoll ==
    obs.enqueued = "true" => \E k \in DOMAIN obs.reqs : obs.reqs[k].ep = "paper"

\* C20: in the client of frontend/app.js at most one record-by-identifier
\* query per identifier is outstanding, and none is scheduled while one is.
C20_OneQueryPerIdentifier ==
    \A id \in AppIds : app.polls[id] + app.pollTimers[id] <= 1

\* True when the last step was pollForSummary reading a parsed object body
\* that carries no error field.
AppPollRead ==
    /\ app.obs.name = "pollForSummary"
    /\ app.obs.resp.net = "resolved"
    /\ app.obs.resp.body.kind = "object"
    /\ app.obs.resp.body.error = "undefined"

\* the record is absent: neither a processing flag nor a summary nor a
\* processing_error
AppRecordAbsent ==
    /\ app.obs.resp.body.processing # "true"
    /\ ~Truthy(app.obs.resp.body.summary)
    /\ app.obs.resp.body.processing_error = "undefined"

\* C21: in pollForSummary a response whose record is absent (no summary, no
\* processing flag) or that carries a processing_error ends the poll chain
\* as a terminal failure: nothing further is scheduled and a notice is shown.
C21_AbsentOrFailedRecordIsTerminal ==
    (AppPollRead /\ (AppRecordAbsent \/ app.obs.resp.body.processing_error # "undefined"))
        => (~app.obs.scheduled /\ app.obs.error)

\* the requests to endpoint ep issued by the last step
Issued(ep) == { k \in DOMAIN obs.reqs : obs.reqs[k].ep = ep }

\* C22: a Summarize action first looks the record up by identifier, and
\* submits a task to the enqueue endpoint only if the lookup reported
\* not-found (a null body or a 'No data found' message); a record that has a
\* summary or is marked processing causes no enqueue request.
C22_EnqueueOnlyAfterNotFound ==
    /\ obs.name \in { "summarize", "uploadCard" } =>
           /\ Issued("enqueue") = {}
           /\ obs.acquired /\ ~obs.ended => Cardinality(Issued("paper")) = 1
    /\ obs.name = "processPaperSummary" =>
           /\ Issued("enqueue") # {} <=> obs.case = "notfound"
           /\ Cardinality(Issued("enqueue")) <= 1
    /\ \A resp \in PaperResponses :
           PaperCase(resp) = "notfound" <=>
               /\ resp.net = "resolved" /\ resp.body.kind # "unparsable"
               /\ ~(hasSummary(resp.body) /\ resp.body.processing = "false")
               /\ resp.body.processing # "true"
               /\ resp.body.kind = "null" \/ resp.body.message = "No data found"

C22_Witness ==
    /\ obs.name = "processPaperSummary" /\ obs.case = "notfound"
    /\ Issued("enqueue") # {}

\* C23 as stated: in fetchResults, fetchPaper, processPaperSummary and
\* uploadFile a rejected call or a malformed or error-bearing body never
\* escapes as an uncaught exception; the operation ends with exactly one
\* notice and the failed request is not issued again.
C23_FailureEndsWithOneNotice ==
    obs.failed # "-" =>
        /\ ~obs.threw /\ Issued(obs.failed) = {}
        /\ obs.ended /\ obs.how = "return" /\ Len(obs.toasts) = 1

\* C23, amended: as stated for every request but the dedup probe of
\* uploadFile; a failed probe is absorbed as a miss, raises no notice and the
\* operation goes on to the artifact PUT.
C23_FailureCaughtAndNotRetried ==
    obs.failed # "-" =>
        /\ ~obs.threw /\ Issued(obs.failed) = {}
        /\ IF obs.failed = "hash"
           THEN /\ ~obs.ended /\ obs.toasts = <<>>
                /\ Cardinality(Issued("put")) = 1
           ELSE obs.ended /\ obs.how = "return" /\ Len(obs.toasts) = 1

C23_Witness == obs.failed = "hash" /\ Issued("put") # {}

\* every button, input and select of the page is disabled
AllDisabled ==
    /\ disabled.searchInput /\ disabled.searchButton /\ disabled.sortBySelect
    /\ disabled.uploadButton /\ prevDisabled /\ nextDisabled
    /\ disabled.summarize = cards

NonWs(s) == SelectSeq(s, LAMBDA c : ~IsWs(c))

IsUpper(c) == c \in { "A", "B", "U+0130" }

\* the first n characters of s (all of s when it is shorter)
FirstChars(s, n) == [k \in 1..(IF Len(s) < n THEN Len(s) ELSE n) |-> s[k]]

\* the lowercase form of each character of s, concatenated
RECURSIVE Lowered(_)
Lowered(s) ==
    IF s = <<>> THEN <<>>
    ELSE Lowered(SubSeq(s, 1, Len(s) - 1)) \o
         (CASE s[Len(s)] = "A" -> <<"a">> [] s[Len(s)] = "B" -> <<"b">>
            [] s[Len(s)] = "U+0130" -> <<"i", "U+0307">> [] OTHER -> << s[Len(s)] >>)

\* C25 as stated: the fingerprint equals the first 48 characters of the
\* first-page text with whitespace removed and letters lowercased; it has at
\* most 48 characters, no whitespace and no uppercase letter; texts that agree
\* on their first 48 characters, and equal texts, get the same fingerprint.
C25_FingerprintOfFirst48 ==
    (hashing.returned /\ hashing.text # Fail) =>
        /\ hashing.hashStr = Lowered(NonWs(FirstChars(hashing.text, 48)))
        /\ Len(hashing.hashStr) <= 48
        /\ \A k \in DOMAIN hashing.hashStr :
               ~IsWs(hashing.hashStr[k]) /\ ~IsUpper(hashing.hashStr[k])
        /\ FirstChars(hashing.text, 48) = FirstChars(hashing.other, 48)
               => hashing.hashStr = hashing.otherHashStr

\* C25, amended: as stated, but the length bound of 48 holds for the
\* fingerprint before lowercasing; lowercasing U+0130 yields two characters,
\* so the fingerprint has at most 48 plus one character per U+0130 among the
\* first 48 characters.
C25_FingerprintOfFirst48_Amended ==
    (hashing.returned /\ hashing.text # Fail) =>
        /\ hashing.hashStr = Lowered(NonWs(FirstChars(hashing.text, 48)))
        /\ Len(hashing.hashStr) <=
               48 + Len(SelectSeq(FirstChars(hashing.text, 48), LAMBDA c : c = "U+0130"))
        /\ (\A k \in 1..Len(hashing.text) : hashing.text[k] # "U+0130")
               => Len(hashing.hashStr) <= 48
        /\ \A k \in DOMAIN hashing.hashStr :
               ~IsWs(hashing.hashStr[k]) /\ ~IsUpper(hashing.hashStr[k])
        /\ FirstChars(hashing.text, 48) = FirstChars(hashing.other, 48)
               => hashing.hashStr = hashing.otherHashStr

C25_Witness ==
    /\ hashing.returned /\ Len(hashing.text) > 48 /\ hashing.text # hashing.other
    /\ FirstChars(hashing.text, 48) = FirstChars(hashing.other, 48)
    /\ \E k \in 1..48 : IsWs(hashing.text[k])
    /\ \E k \in 1..48 : IsUpper(hashing.text[k])
    /\ hashing.hashStr = hashing.otherHashStr

\* the steps that continue a suspended operation after one of its awaits
ContinuationSteps ==
    { "fetchResults", "processPaperSummary", "processPaperSummary.enqueue",
      "fetchPaper", "uploadFile.convert", "uploadFile.hash", "uploadFile.probe",
      "uploadFile.put", "uploadFile.enqueue" }

\* C26: while an operation is in flight and holds the lock, currentView and
\* currentQuery are changed only by continuations of an operation in flight;
\* no timer callback of a finished operation and no refused event changes them.
C26_ViewStateChangedOnlyByLockHolder ==
    [][ (isApiCallInProgress /\ InFlight # {}
         /\ << currentView, currentQuery >>' # << currentView, currentQuery >>)
            => obs'.name \in ContinuationSteps ]_vars

\* C27: in uploadFile the artifact PUT is issued only by the step that got
\* no fingerprint or saw the probe miss, once per upload; a record is appended
\* to the uploads list only by the step that sees a successful PUT response,
\* exactly one, and that step then issues the one enqueue request, for the
\* appended record; the step that sees the enqueue outcome, whatever it is,
\* leaves the list and the persisted slot as they are.
C27_UploadStepsInOrder ==
    [][ LET grew == Len(myUploads') - Len(myUploads)
            upload == obs'.name \in { "uploadFile", "uploadFile.convert",
                                      "uploadFile.hash", "uploadFile.probe",
                                      "uploadFile.put", "uploadFile.enqueue" }
        IN /\ grew \in { 0, 1 }
           /\ grew = 1 <=> (obs'.name = "uploadFile.put" /\ obs'.failed = "-")
           /\ Issued("put")' # {} =>
                  /\ Cardinality(Issued("put")') = 1
                  /\ \/ obs'.name = "uploadFile.hash"
                     \/ obs'.name = "uploadFile.probe" /\ obs'.ret.value.kind # "object"
                  /\ \E i \in InFlight : /\ ops[i].kind = "uploadFile"
                                         /\ ops[i].nPut = 0 /\ ops'[i].nPut = 1
           /\ (upload /\ Issued("enqueue")' # {}) => grew = 1
           /\ grew = 1 =>
                  /\ Cardinality(Issued("enqueue")') = 1
                  /\ \A k \in Issued("enqueue")' :
                         obs'.reqs[k].arg = myUploads'[Len(myUploads')].arxiv_id
                  /\ \E i \in InFlight : ops[i].pc = "put" /\ ops'[i].pc = "enqueue"
           /\ obs'.name = "uploadFile.enqueue" =>
                  /\ myUploads' = myUploads /\ storage' = storage
                  /\ Issued("enqueue")' = {} /\ Issued("put")' = {} ]_vars

C27_Witness ==
    /\ obs.name = "uploadFile.enqueue" /\ obs.enqueued = "false" /\ obs.ended
    /\ obs.op.nNet = 3 /\ obs.op.nPut = 1 /\ obs.op.nEnq = 1
    /\ Len(myUploads) = 1 /\ storage = JSONstringify(myUploads)

\* C28: when generatePdfHash returns null or an empty fingerprint, the step
\* of uploadFile that receives it sends no request to the dedup endpoint,
\* shows no notice, does not end the operation and issues the artifact PUT.
C28_NoFingerprintIsMiss ==
    (obs.name = "uploadFile.hash" /\ obs.case \in { "null", "empty" }) =>
        /\ Issued("hash") = {} /\ obs.toasts = <<>>
        /\ ~obs.threw /\ ~obs.ended
        /\ Cardinality(Issued("put")) = 1
        /\ \E i \in InFlight : /\ ops[i].kind = "uploadFile" /\ ops[i].pc = "put"
                               /\ ops[i].nNet = 1 /\ ops[i].nPut = 1

C28_Witness ==
    /\ obs.name = "uploadFile.hash" /\ obs.case = "null" /\ Issued("put") # {}

\* the same for a first page that holds only blanks
C28_WitnessEmpty ==
    /\ obs.name = "uploadFile.hash" /\ obs.case = "empty" /\ Issued("put") # {}

\* a record that is still being processed
AppStillProcessing ==
    [net |-> "resolved", body |-> AppPollBody("true", Undef, "undefined", FALSE)]

\* C29: a pollForSummary response with processing true and no error field
\* cancels nothing and schedules exactly one timer, for the same identifier;
\* the timer callback issues exactly one query for that identifier, and
\* after it the step that reschedules on a processing answer can be taken
\* again: the client keeps no count of attempts.
C29_ProcessingReschedulesOnce ==
    [][ /\ (AppPollRead /\ app.obs.resp.body.processing = "true")' =>
              /\ app'.pollTimers =
                     [app.pollTimers EXCEPT ![app'.obs.id] = @ + 1]
              /\ app'.polls = [app.polls EXCEPT ![app'.obs.id] = @ - 1]
              /\ app'.obs.scheduled /\ ~app'.obs.error /\ ~app'.obs.queried
        /\ app'.obs.name = "pollTimer" =>
              /\ app'.pollTimers =
                     [app.pollTimers EXCEPT ![app'.obs.id] = @ - 1]
              /\ app'.polls = [app.polls EXCEPT ![app'.obs.id] = @ + 1]
              /\ app'.obs.queried
              /\ AppWithinBounds(app_pollForSummary_resume(
                     [app' EXCEPT !.obs = AppNoObs("pollForSummary")],
                     app'.obs.id, AppStillProcessing)) ]_vars

\* a query answered 'processing', after which the timer of its identifier is set
C29_Witness ==
    /\ AppPollRead /\ app.obs.resp.body.processing = "true"
    /\ app.obs.scheduled /\ app.pollTimers[app.obs.id] = 1
    /\ app.obs.resp.body.processing_error = "undefined"

NoSlash(id) == \A k \in DOMAIN id : id[k] # "/"

\* identifiers of up to three characters with and without separators
SlashIds == UNION { [1..n -> { "a", "/", "-" }] : n \in 0..3 }

C30_WitnessHit ==
    /\ ProbeHit /\ ~NoSlash(obs.ret.value.arxiv_id)
    /\ location = obs.ret.value.sanitized_arxiv_id /\ NoSlash(location)

\* C31: if every pending network, file-reading and conversion step
\* eventually completes or fails, then from every state in which the lock is
\* held a state in which it is free is eventually reached.
C31_LockEventuallyFree == isApiCallInProgress ~> ~isApiCallInProgress

\* C32: currentPage is never negative, whatever searches, sort changes, page
\* changes, lock acquisitions and releases came before.
C32_PageNeverNegative == currentPage >= 0

\* C33: entering MyUploads through the uploads tab completes without raising
\* for every UploadRecord list, the empty one included, and leaves the view
\* in uploads with one rendered card per record.
C33_UploadsViewNeverRaises ==
    (obs.name = "uploadsTab" /\ ~obs.held)
    => /\ ~obs.threw
       /\ currentView = "uploads"
       /\ uploadCards = Len(myUploads)

\* C34: the step in which an upload ends in a dedup hit, in the rejection of
\* an unsupported file type, in a conversion failure or in a failed artifact
\* PUT leaves the uploads list and its persisted slot as they were, and the
\* operation that ends so never reached the step that appends its record;
\* no step of an upload before the PUT response writes either of them.
C34_FailedUploadWritesNothing ==
    [][ LET step == obs'.name
            hit == step = "uploadFile.probe" /\ obs'.ended /\ obs'.op.hit
            rejected == /\ step = "uploadFile" /\ obs'.ended
                        /\ obs'.op.ext \notin { "pdf", "docx", "txt" }
            convFail == step = "uploadFile.convert" /\ obs'.ended
            putFail == step = "uploadFile.put" /\ obs'.ended
        IN /\ (hit \/ rejected \/ convFail \/ putFail) =>
                  /\ myUploads' = myUploads /\ storage' = storage
                  /\ obs'.op.nEnq = 0
           /\ step \in { "uploadFile", "uploadFile.convert", "uploadFile.hash",
                         "uploadFile.probe" } =>
                  myUploads' = myUploads /\ storage' = storage ]_vars

\* a PUT fails while the list already holds a record
C34_Witness ==
    /\ obs.name = "uploadFile.put" /\ obs.ended /\ obs.failed = "put"
    /\ Len(myUploads) = 1 /\ storage = JSONstringify(myUploads)

\* a dedup hit while the list already holds a record
C34_WitnessHit ==
    /\ obs.name = "uploadFile.probe" /\ obs.ended /\ obs.op.hit
    /\ Len(myUploads) = 1 /\ storage = JSONstringify(myUploads)

\* a file of an unsupported type is chosen
C34_WitnessRejected ==
    /\ obs.name = "uploadFile" /\ obs.ended /\ obs.op.ext = "csv"
    /\ Len(myUploads) = 1

\* the conversion of a docx or txt file fails
C34_WitnessConversion ==
    /\ obs.name = "uploadFile.convert" /\ obs.ended /\ Len(myUploads) = 1

\* the step issued a request to the enqueue endpoint for identifier x
EnqueuedFor(x) == \E k \in Issued("enqueue") : obs.reqs[k].arg = x

\* the step saw the backend answer a lookup by identifier with a record:
\* one that has a summary or is marked processing
Resolved ==
    obs.name \in { "processPaperSummary", "fetchPaper" }
    /\ obs.case \in { "ready", "processing" }

\* identifiers a task may be submitted for
EnqueueIds == { P1 } \cup { ManualId(n) : n \in 1..MaxUploads }

\* the step saw the backend accept an enqueue request for identifier x: that
\* of processPaperSummary for its paper, or that of uploadFile, whose record
\* is in the uploads list
EnqueueAnswered(x) ==
    /\ obs.enqueued = "true"
    /\ \/ obs.name = "processPaperSummary.enqueue" /\ obs.op.paper.arxiv_id = x
       \/ /\ obs.name = "uploadFile.enqueue"
          /\ \E k \in DOMAIN myUploads : myUploads[k].arxiv_id = x

\* C35: as long as the backend answers no lookup with a record, a task is
\* submitted for an identifier once: after the backend accepted the enqueue
\* request for it, no later Summarize action or selection of the uploaded
\* record issues an enqueue request for it again.
C35_OneEnqueuePerIdentifier ==
    \/ <>Resolved
    \/ \A x \in EnqueueIds : [](EnqueueAnswered(x) => []~EnqueuedFor(x))

\* the step ran requestSummary for identifier x
AppRequested(x) == app.obs.name = "requestSummary" /\ app.obs.id = x

\* C36: once a summary was requested for one identifier, the summary of
\* another identifier does not end up in the summary panel unless that other
\* identifier is requested again afterwards: a late answer to an older poll
\* chain does not replace what the newest request displays.
C36_NewestRequestIsShown ==
    \A x \in AppIds : \A y \in AppIds \ { x } :
        [](AppRequested(y) => (<>AppRequested(x) \/ []<>(app.summaryContent # x)))

\* C37: a pollForSummary step whose response is anything but a parsed record
\* marked processing without an error field (a record not processing, an
\* error field, a failed request) ends the chain: it schedules no timer and
\* issues no query, and it leaves either the summary displayed or an error
\* notice shown.
C37_ChainEndsWithOutcome ==
    (app.obs.name = "pollForSummary"
        /\ ~(AppPollRead /\ app.obs.resp.body.processing = "true"))
    => /\ ~app.obs.scheduled /\ ~app.obs.queried
       /\ app.obs.shown \/ app.obs.error

====
